---- MODULE Spec2Model ----
(***************************************************************************)
(* TuringBot: the heartbeat tick loop (heartbeat.py), the Discord message  *)
(* handler that interrupts it (bot.py) and the bounded tool-calling loop   *)
(* of the brain (brain.py).                                                *)
(*                                                                         *)
(* Everything runs on one asyncio event loop: a step of the model is the   *)
(* code one task runs between two suspension points (await).               *)
(*                                                                         *)
(*   Spec      the bot: on_ready, on_message handlers, the tick loop, and  *)
(*             stop() / task.cancel() issued from outside.                 *)
(*   SpecBrain Brain.think / clear_history called one after another        *)
(*             against a stub backend.                                     *)
(*   SpecTool  Brain._dispatch_tool applied to one tool request.           *)
(*   SpecHeartbeat      the Heartbeat driven through its API: start, stop, *)
(*             pause, resume and task.cancel() between the loop's steps.   *)
(*   SpecHeartbeatFair  the same, a pending cancellation being delivered.  *)
(*   SpecHeartbeatLive  the same with a backend that answers, every await  *)
(*             of the loop returning.                                      *)
(*   SpecFiles CodebaseRW.read_file / write_file / delete_file / hot_load  *)
(*             applied to one relative path, and list_files.               *)
(*   SpecTape  the operations of TuringTape3D called one after another.    *)
(*   SpecTapeLoad       the same, with load() of a file found on disk.     *)
(*   SpecSandbox        code run by sandboxed_exec: its imports and the    *)
(*             attributes it reads.                                        *)
(***************************************************************************)
EXTENDS Integers, Sequences, FiniteSets, TLC

VARIABLES
    \* ---- Heartbeat (heartbeat.py) ----
    running,          \* Heartbeat._running
    pause_event,      \* Heartbeat._pause_event is set (is_paused = ~pause_event)
    loopPc,           \* Heartbeat._task and the position of _loop inside it
    must_cancel,      \* a cancellation of _task is pending delivery
    orphans,          \* loop tasks not done that _task no longer refers to
    tick_count,       \* Heartbeat._tick_count
    tick_saved,       \* save_tape_fn has completed in the tick most recently begun
    \* ---- TuringBot (bot.py) ----
    heartbeat_loop,   \* TuringBot.heartbeat_loop is not None
    processing_message, \* TuringBot._processing_message
    hpc,              \* position of each on_message invocation
    did_pause,        \* the on_message invocations that called pause() (bot.py:124-125)
    saved,            \* the on_message invocations whose tape.save completed (bot.py:159)
    \* ---- Brain (brain.py) ----
    max_history,      \* Brain.max_history
    history,          \* Brain.history
    bpc,              \* position of the current think() call
    round,            \* backend calls made by the current think() call
    tool_log,         \* tool_log of the current think() call
    result,           \* text returned by the last think() call that returned
    last_prompt,      \* system_prompt argument of the most recent think() call
    stub,             \* the tool request the stub backend issues in this think() call
    calls,            \* number of think() calls made so far
    \* ---- one _dispatch_tool call ----
    request,          \* the tool request handed to _dispatch_tool
    outcome,          \* what _dispatch_tool did with it
    \* ---- a direct caller of the Heartbeat API ----
    last_call,        \* the call made since the loop last ran, and what it did
    stopped,          \* stop() was called and no start() has succeeded since
    \* ---- CodebaseRW (codebase_rw.py) and the file system under it ----
    files,            \* the regular files: absolute path |-> content
    dirs,             \* the directories: absolute paths
    fs_call,          \* the CodebaseRW call made: operation, path given, result
    \* ---- TuringTape3D (turing_tape.py) ----
    head,             \* TuringTape3D._head
    cells,            \* TuringTape3D._cells: coordinate |-> value
    tape_call,        \* the last tape call: operation, argument, result
    tape_ops,         \* number of tape calls made
    \* ---- hot-loaded modules and the sandbox (codebase_rw.py, sandbox.py) ----
    registry,         \* the sys.modules entries hot_load has made: name |-> namespace
    scope,            \* the objects the code run by sandboxed_exec has got hold of
    sb_call           \* the last import the sandboxed code asked for, and its result

hvars == <<running, pause_event, loopPc, must_cancel, orphans, tick_count, tick_saved>>
botvars == <<heartbeat_loop, processing_message, hpc, did_pause, saved>>
bvars == <<max_history, history, bpc, round, tool_log, result, last_prompt, stub, calls>>
dvars == <<request, outcome>>
cvars == <<last_call, stopped>>
fvars == <<files, dirs, fs_call>>
tvars == <<head, cells, tape_call, tape_ops>>
svars == <<registry, scope, sb_call>>
vars == <<hvars, botvars, bvars, dvars, cvars, fvars, tvars, svars>>

(***************************************************************************)
(* Bounds of the model.                                                    *)
(***************************************************************************)
MaxMsgs == 2        \* on_message invocations
MaxTicks == 2       \* ticks the loop may begin
MaxHist == 3        \* largest configured max_history
MaxCalls == 2       \* think() calls
MaxToolCalls == 2   \* tool requests in one assistant message

Msgs == 1..MaxMsgs

(***************************************************************************)
(* Heartbeat                                                               *)
(***************************************************************************)
\* A step of the loop task: the caller's synchronous stretch is over.
NoCall == [op |-> "none", res |-> "none", again |-> FALSE]
loopRan == last_call' = NoCall /\ UNCHANGED stopped

LoopAlive == loopPc \notin {"none", "done"}

\* Heartbeat.pause: clears the event. A loop already woken stays woken.
pause ==
    /\ pause_event' = FALSE
    /\ UNCHANGED <<running, loopPc, must_cancel, orphans, tick_count, tick_saved>>

\* Heartbeat.resume: sets the event; asyncio.Event.set resolves the future of a
\* waiter, which then runs at its next turn whatever the flag is by then.
resume ==
    /\ pause_event' = TRUE
    /\ loopPc' = IF loopPc = "pause_wait" THEN "woken" ELSE loopPc
    /\ UNCHANGED <<running, must_cancel, orphans, tick_count, tick_saved>>

\* Heartbeat.start on a Heartbeat without a live task: the new task takes the
\* place of the old one in _task.
start ==
    /\ ~LoopAlive
    /\ running' = TRUE
    /\ loopPc' = "spawned"
    /\ orphans' = IF LoopAlive THEN orphans + 1 ELSE orphans
    /\ must_cancel' = FALSE
    /\ UNCHANGED <<pause_event, tick_count, tick_saved>>

\* Heartbeat.stop
stop ==
    /\ running' = FALSE
    /\ pause_event' = TRUE
    /\ loopPc' = IF loopPc = "pause_wait" THEN "woken" ELSE loopPc
    /\ must_cancel' = IF LoopAlive THEN TRUE ELSE must_cancel
    /\ UNCHANGED <<orphans, tick_count, tick_saved>>

\* _loop leaves its while loop or is left by an exception: the finally block.
LoopExit ==
    /\ running' = FALSE
    /\ loopPc' = "done"

\* After the tick's try/except: sleep if still running, else the while test fails.
AfterTick ==
    IF running
    THEN /\ loopPc' = "sleep"
         /\ UNCHANGED running
    ELSE LoopExit

\* The tick up to its first await: count, fetch the prompts (p: "ok", or
\* "exception" when a prompt function raises), call think_fn.
BeginTick(p) ==
    /\ tick_count < MaxTicks
    /\ tick_count' = tick_count + 1
    /\ tick_saved' = FALSE
    /\ IF p = "ok"
       THEN /\ loopPc' = "think"
            /\ UNCHANGED running
       ELSE AfterTick

\* wait() has returned: the running test, then the tick.
AfterWait(p) ==
    IF ~running
    THEN LoopExit /\ UNCHANGED <<tick_count, tick_saved>>
    ELSE BeginTick(p)

\* The top of the while loop: the running test, then wait(), which returns at
\* once when the event is set and suspends otherwise.
EnterLoop(p) ==
    IF ~running
    THEN LoopExit /\ UNCHANGED <<tick_count, tick_saved>>
    ELSE IF ~pause_event
         THEN /\ loopPc' = "pause_wait"
              /\ UNCHANGED <<running, tick_count, tick_saved>>
         ELSE AfterWait(p)

\* The loop begins a tick.
TickBegins == tick_count' = tick_count + 1

Outcomes == {"ok", "exception"}
ThinkOutcomes == {"ok", "exception", "base"}

\* First step of the task.
LoopRun(p) ==
    /\ loopPc = "spawned"
    /\ ~must_cancel
    /\ EnterLoop(p)
    /\ UNCHANGED <<pause_event, must_cancel, orphans>>
    /\ UNCHANGED <<botvars, bvars, dvars, fvars, tvars, svars>>
    /\ loopRan

\* The loop resumes from wait(): wait() returns True without looking at the flag.
LoopWake(p) ==
    /\ loopPc = "woken"
    /\ ~must_cancel
    /\ AfterWait(p)
    /\ UNCHANGED <<pause_event, must_cancel, orphans>>
    /\ UNCHANGED <<botvars, bvars, dvars, fvars, tvars, svars>>
    /\ loopRan

\* think_fn returns or raises: "exception" an Exception, "base" a BaseException
\* that is neither an Exception nor CancelledError.
LoopThinkDone(o) ==
    /\ loopPc = "think"
    /\ ~must_cancel
    /\ CASE o = "ok" -> /\ loopPc' = "callback"
                        /\ UNCHANGED running
         [] o = "exception" -> AfterTick
         [] OTHER -> LoopExit
    /\ UNCHANGED <<pause_event, must_cancel, orphans, tick_count, tick_saved>>
    /\ UNCHANGED <<botvars, bvars, dvars, fvars, tvars, svars>>
    /\ loopRan

\* thought_callback returns or raises (o); if it returned, save_tape_fn runs
\* and returns or raises (s).
LoopCallbackDone(o, s) ==
    /\ loopPc = "callback"
    /\ ~must_cancel
    /\ tick_saved' = (o = "ok" /\ s = "ok")
    /\ AfterTick
    /\ UNCHANGED <<pause_event, must_cancel, orphans, tick_count>>
    /\ UNCHANGED <<botvars, bvars, dvars, fvars, tvars, svars>>
    /\ loopRan

LoopSleepDone(p) ==
    /\ loopPc = "sleep"
    /\ ~must_cancel
    /\ EnterLoop(p)
    /\ UNCHANGED <<pause_event, must_cancel, orphans>>
    /\ UNCHANGED <<botvars, bvars, dvars, fvars, tvars, svars>>
    /\ loopRan

\* The pending cancellation is delivered at the task's next step. A task that
\* never ran is finished without running any of _loop.
LoopCancelled ==
    /\ LoopAlive
    /\ must_cancel
    /\ loopPc' = "done"
    /\ running' = IF loopPc = "spawned" THEN running ELSE FALSE
    /\ must_cancel' = FALSE
    /\ UNCHANGED <<pause_event, orphans, tick_count, tick_saved>>
    /\ UNCHANGED <<botvars, bvars, dvars, fvars, tvars, svars>>
    /\ loopRan

(***************************************************************************)
(* TuringBot                                                               *)
(***************************************************************************)
brainIdle == UNCHANGED <<bvars, dvars, cvars, fvars, tvars, svars>>

\* on_ready: builds the Heartbeat and starts it.
OnReady ==
    /\ ~heartbeat_loop
    /\ heartbeat_loop' = TRUE
    /\ start
    /\ UNCHANGED <<processing_message, hpc, did_pause, saved>>
    /\ brainIdle

\* on_message up to its first await (entering channel.typing()).
OnMessage(h) ==
    /\ hpc[h] = "new"
    /\ IF heartbeat_loop /\ running
       THEN pause /\ did_pause' = did_pause \cup {h}
       ELSE UNCHANGED <<hvars, did_pause>>
    /\ processing_message' = TRUE
    /\ hpc' = [hpc EXCEPT ![h] = "typing"]
    /\ UNCHANGED <<heartbeat_loop, saved>>
    /\ brainIdle

\* The finally block of on_message.
Finally(h) ==
    /\ processing_message' = FALSE
    /\ IF heartbeat_loop /\ running
       THEN resume
       ELSE UNCHANGED hvars
    /\ hpc' = [hpc EXCEPT ![h] = "done"]

\* An await of the try block fails with an Exception: the except block logs
\* and awaits message.reply(error).
ToExcept(h) ==
    /\ hpc' = [hpc EXCEPT ![h] = "err_reply"]
    /\ UNCHANGED <<hvars, processing_message>>

\* typing() entered: brain.think is called.
HTypingDone(h, o) ==
    /\ hpc[h] = "typing"
    /\ IF o = "ok"
       THEN /\ hpc' = [hpc EXCEPT ![h] = "think"]
            /\ UNCHANGED <<hvars, processing_message>>
       ELSE ToExcept(h)
    /\ UNCHANGED <<heartbeat_loop, did_pause, saved>>
    /\ brainIdle

\* brain.think returns or raises.
HThinkDone(h, o) ==
    /\ hpc[h] = "think"
    /\ CASE o = "ok" -> /\ hpc' = [hpc EXCEPT ![h] = "stream"]
                        /\ UNCHANGED <<hvars, processing_message>>
         [] o = "exception" -> ToExcept(h)
         [] OTHER -> Finally(h)
    /\ UNCHANGED <<heartbeat_loop, did_pause, saved>>
    /\ brainIdle

\* _stream_thoughts returns or raises.
HStreamDone(h, o) ==
    /\ hpc[h] = "stream"
    /\ IF o = "ok"
       THEN /\ hpc' = [hpc EXCEPT ![h] = "reply"]
            /\ UNCHANGED <<hvars, processing_message>>
       ELSE ToExcept(h)
    /\ UNCHANGED <<heartbeat_loop, did_pause, saved>>
    /\ brainIdle

\* The replies are sent or one raises (o); then tape.save runs (s).
HReplyDone(h, o, s) ==
    /\ hpc[h] = "reply"
    /\ IF o = "ok" /\ s = "ok"
       THEN Finally(h) /\ saved' = saved \cup {h}
       ELSE ToExcept(h) /\ UNCHANGED saved
    /\ UNCHANGED <<heartbeat_loop, did_pause>>
    /\ brainIdle

\* The error reply of the except block is sent or raises: finally runs.
HErrReplyDone(h) ==
    /\ hpc[h] = "err_reply"
    /\ Finally(h)
    /\ UNCHANGED <<heartbeat_loop, did_pause, saved>>
    /\ brainIdle

\* heartbeat_loop.stop() called from outside the handler and the loop.
Stop ==
    /\ heartbeat_loop
    /\ stop
    /\ UNCHANGED botvars
    /\ brainIdle

\* The task returned by start() is cancelled directly (task.cancel()).
CancelTask ==
    /\ LoopAlive
    /\ ~must_cancel
    /\ must_cancel' = TRUE
    /\ UNCHANGED <<running, pause_event, loopPc, orphans, tick_count, tick_saved>>
    /\ UNCHANGED botvars
    /\ brainIdle

Handler(h) ==
    \/ OnMessage(h)
    \/ \E o \in Outcomes : HTypingDone(h, o)
    \/ \E o \in ThinkOutcomes : HThinkDone(h, o)
    \/ \E o \in Outcomes : HStreamDone(h, o)
    \/ \E o, s \in Outcomes : HReplyDone(h, o, s)
    \/ HErrReplyDone(h)

InitHeartbeat ==
    /\ running = FALSE
    /\ pause_event = TRUE
    /\ loopPc = "none"
    /\ must_cancel = FALSE
    /\ orphans = 0
    /\ tick_count = 0
    /\ tick_saved = FALSE

InitBot ==
    /\ heartbeat_loop = FALSE
    /\ processing_message = FALSE
    /\ hpc = [h \in Msgs |-> "new"]
    /\ did_pause = {}
    /\ saved = {}

\* Before the first think() call no stub has been chosen.
InitStub ==
    [req |-> [name |-> "tape_read", args |-> "missing", exc |-> "none"],
     k |-> 1, last |-> 1, mode |-> "text"]

\* config.MAX_HISTORY_MESSAGES, the default of Brain.max_history.
MAX_HISTORY_MESSAGES == 50

InitBrainIdle ==
    /\ max_history = MAX_HISTORY_MESSAGES
    /\ history = <<>>
    /\ bpc = "idle"
    /\ round = 0
    /\ tool_log = <<>>
    /\ result = [kind |-> "none", text |-> ""]
    /\ last_prompt = ""
    /\ stub = InitStub
    /\ calls = 0

InitToolIdle ==
    /\ request = [name |-> "bogus", args |-> "ok", exc |-> "none"]
    /\ outcome = [kind |-> "pending", text |-> ""]

\* The project root and the directory of the extensions, as absolute paths
\* (sequences of names below "/"); "/proj2" is a sibling of the project root.
PROJECT_ROOT == <<"proj">>
EXTENSIONS_DIR == <<"proj", "extensions">>
\* config.CORE_FILES, one name standing for the ten.
CORE_FILES == {"main.py"}

\* The project as deployed: a core file, two files that are neither core nor
\* extensions, the extensions directory, and a file in the sibling directory.
BaseFiles ==
    (<<"proj", "main.py">> :> "orig") @@ (<<"proj", "a.py">> :> "orig")
        @@ (<<"proj", "extensions.md">> :> "orig")
        @@ (<<"proj2", "a.py">> :> "orig")
BaseDirs == {<<>>, <<"proj">>, <<"proj", "extensions">>, <<"proj2">>}
NoFsCall == [op |-> "none", path |-> <<>>, res |-> "none"]

InitFilesIdle ==
    /\ files = BaseFiles
    /\ dirs = BaseDirs
    /\ fs_call = NoFsCall

\* TuringTape3D.__init__: no cells, the head at the origin.
Origin == <<0, 0, 0>>
NoTapeCall == [op |-> "none", arg |-> <<>>, kind |-> "none", val |-> <<>>]

InitTapeIdle ==
    /\ head = Origin
    /\ cells = [c \in {} |-> ""]
    /\ tape_call = NoTapeCall
    /\ tape_ops = 0

InitCaller ==
    /\ last_call = NoCall
    /\ stopped = FALSE

\* Nothing hot-loaded, no sandboxed code running.
NoImport == [name |-> <<>>, res |-> "none", allowed |-> {}, n |-> 0]
InitSandboxIdle ==
    /\ registry = [m \in {} |-> ""]
    /\ scope = {}
    /\ sb_call = NoImport

Init ==
    /\ InitHeartbeat /\ InitBot /\ InitBrainIdle /\ InitToolIdle /\ InitCaller
    /\ InitFilesIdle /\ InitTapeIdle /\ InitSandboxIdle

Next ==
    \/ OnReady
    \/ \E h \in Msgs : Handler(h)
    \/ \E p \in Outcomes : LoopRun(p)
    \/ \E p \in Outcomes : LoopWake(p)
    \/ \E o \in ThinkOutcomes : LoopThinkDone(o)
    \/ \E o, s \in Outcomes : LoopCallbackDone(o, s)
    \/ \E p \in Outcomes : LoopSleepDone(p)
    \/ LoopCancelled
    \/ Stop
    \/ CancelTask

Spec == Init /\ [][Next]_vars

(***************************************************************************)
(* The Heartbeat driven directly through its API, as its tests drive it:   *)
(* start / stop / pause / resume called in any order between the steps of  *)
(* the loop task.                                                          *)
(***************************************************************************)
\* The record of a call: `again` when the same operation was the call before
\* it with no step of the loop in between.
Called(op, res) == [op |-> op, res |-> res, again |-> last_call.op = op]

\* start() without the test of the task: a second loop is spawned over a
\* live one.
CallStartUnguarded ==
    /\ running' = TRUE
    /\ loopPc' = "spawned"
    /\ orphans' = IF LoopAlive THEN orphans + 1 ELSE orphans
    /\ must_cancel' = FALSE
    /\ UNCHANGED <<pause_event, tick_count, tick_saved>>
    /\ last_call' = Called("start", "ok")
    /\ stopped' = FALSE
    /\ UNCHANGED <<botvars, bvars, dvars, fvars, tvars, svars>>

\* start(): RuntimeError("Heartbeat is already running") while the task is
\* not done, before anything is assigned.
CallStart ==
    /\ IF LoopAlive
       THEN /\ UNCHANGED hvars
            /\ last_call' = Called("start", "AlreadyRunning")
            /\ UNCHANGED stopped
       ELSE /\ start
            /\ last_call' = Called("start", "ok")
            /\ stopped' = FALSE
    /\ UNCHANGED <<botvars, bvars, dvars, fvars, tvars, svars>>

\* stop() that only unblocks the wait: the flag stays and the task is not
\* cancelled.
CallStopNoCancel ==
    /\ pause_event' = TRUE
    /\ loopPc' = IF loopPc = "pause_wait" THEN "woken" ELSE loopPc
    /\ UNCHANGED <<running, must_cancel, orphans, tick_count, tick_saved>>
    /\ last_call' = Called("stop", "ok")
    /\ stopped' = TRUE
    /\ UNCHANGED <<botvars, bvars, dvars, fvars, tvars, svars>>

CallStop ==
    /\ stop
    /\ last_call' = Called("stop", "ok")
    /\ stopped' = TRUE
    /\ UNCHANGED <<botvars, bvars, dvars, fvars, tvars, svars>>

CallPause ==
    /\ pause
    /\ last_call' = Called("pause", "ok")
    /\ UNCHANGED stopped
    /\ UNCHANGED <<botvars, bvars, dvars, fvars, tvars, svars>>

\* resume() that flips the event where it should set it.
CallResumeToggle ==
    /\ pause_event' = ~pause_event
    /\ loopPc' = IF loopPc = "pause_wait" /\ ~pause_event THEN "woken" ELSE loopPc
    /\ UNCHANGED <<running, must_cancel, orphans, tick_count, tick_saved>>
    /\ last_call' = Called("resume", "ok")
    /\ UNCHANGED stopped
    /\ UNCHANGED <<botvars, bvars, dvars, fvars, tvars, svars>>

\* resume() that sets the flag and wakes nobody.
CallResumeNoWake ==
    /\ pause_event' = TRUE
    /\ UNCHANGED <<running, loopPc, must_cancel, orphans, tick_count, tick_saved>>
    /\ last_call' = Called("resume", "ok")
    /\ UNCHANGED stopped
    /\ UNCHANGED <<botvars, bvars, dvars, fvars, tvars, svars>>

CallResume ==
    /\ resume
    /\ last_call' = Called("resume", "ok")
    /\ UNCHANGED stopped
    /\ UNCHANGED <<botvars, bvars, dvars, fvars, tvars, svars>>

\* task.cancel() on the task start() returned.
CallCancel ==
    /\ LoopAlive
    /\ ~must_cancel
    /\ must_cancel' = TRUE
    /\ UNCHANGED <<running, pause_event, loopPc, orphans, tick_count, tick_saved>>
    /\ last_call' = Called("cancel", "ok")
    /\ UNCHANGED stopped
    /\ UNCHANGED <<botvars, bvars, dvars, fvars, tvars, svars>>

NextHeartbeat ==
    \/ CallStart
    \/ CallStop
    \/ CallPause
    \/ CallResume
    \/ CallCancel
    \/ \E p \in Outcomes : LoopRun(p)
    \/ \E p \in Outcomes : LoopWake(p)
    \/ \E o \in ThinkOutcomes : LoopThinkDone(o)
    \/ \E o, s \in Outcomes : LoopCallbackDone(o, s)
    \/ \E p \in Outcomes : LoopSleepDone(p)
    \/ LoopCancelled

SpecHeartbeat == Init /\ [][NextHeartbeat]_vars

\* The event loop gives every ready task its turn: a pending cancellation is
\* delivered.
SpecHeartbeatFair == SpecHeartbeat /\ WF_vars(LoopCancelled)

\* C13: start() while the task is not done (running, paused, or cancelled by
\* stop() and not yet finished) fails with AlreadyRunning and changes nothing
\* of the Heartbeat; start() with no live task succeeds and spawns the loop.
C13_StartOnlyWhenStopped ==
    [][last_call'.op = "start" =>
         IF LoopAlive
         THEN last_call'.res = "AlreadyRunning" /\ UNCHANGED hvars
         ELSE /\ last_call'.res = "ok"
              /\ running' /\ loopPc' = "spawned" /\ ~must_cancel']_vars

\* start() was refused while the loop, cancelled by stop(), had not finished.
C13_Witness ==
    /\ last_call = [op |-> "start", res |-> "AlreadyRunning", again |-> FALSE]
    /\ stopped /\ must_cancel /\ LoopAlive /\ ~running

\* C14: after stop() the loop eventually is finished with is_running false.
C14_StopSettles ==
    stopped ~> (~LoopAlive /\ ~running)

\* stop() has been called on a loop blocked at the pause wait, the loop has
\* not finished yet.
C14_Witness ==
    /\ stopped /\ last_call.op = "stop"
    /\ loopPc = "woken" /\ must_cancel /\ tick_count > 0

\* C15: after stop() no tick begins until a later start() succeeds.
C15_NoTickAfterStop ==
    [][TickBegins => ~stopped]_vars

\* After stop() the loop has finished, resume() was called since, and ticks
\* were still to come.
C15_Witness ==
    /\ stopped /\ ~LoopAlive /\ ~running
    /\ last_call.op = "resume" /\ pause_event
    /\ tick_count > 0 /\ tick_count < MaxTicks

\* The Heartbeat with a backend that answers (think_fn returns or raises an
\* Exception) and a task nobody cancels but stop().
NextHeartbeatLive ==
    \/ CallStart
    \/ CallStop
    \/ CallPause
    \/ CallResume
    \/ \E p \in Outcomes : LoopRun(p)
    \/ \E p \in Outcomes : LoopWake(p)
    \/ \E o \in Outcomes : LoopThinkDone(o)
    \/ \E o, s \in Outcomes : LoopCallbackDone(o, s)
    \/ \E p \in Outcomes : LoopSleepDone(p)
    \/ LoopCancelled

\* Every await of the loop returns and the loop task gets its turn.
LoopFairness ==
    /\ WF_vars(\E p \in Outcomes : LoopRun(p))
    /\ WF_vars(\E p \in Outcomes : LoopWake(p))
    /\ WF_vars(\E o \in Outcomes : LoopThinkDone(o))
    /\ WF_vars(\E o, s \in Outcomes : LoopCallbackDone(o, s))
    /\ WF_vars(\E p \in Outcomes : LoopSleepDone(p))
    /\ WF_vars(LoopCancelled)

SpecHeartbeatLive == Init /\ [][NextHeartbeatLive]_vars /\ LoopFairness

\* The Heartbeat is running with a live loop, not paused and not stopped.
Active == running /\ LoopAlive /\ pause_event /\ ~stopped

C17_Idempotent ==
    [][last_call'.op \in {"pause", "resume", "stop"} =>
         /\ last_call'.res = "ok"
         /\ last_call.op = last_call'.op =>
              UNCHANGED <<running, pause_event, loopPc, must_cancel>>]_vars

\* stop() was called twice in a row on a loop blocked at the pause wait.
C17_Witness ==
    /\ last_call = [op |-> "stop", res |-> "ok", again |-> TRUE]
    /\ loopPc = "woken" /\ must_cancel /\ ~running /\ pause_event

\* C36: a pause() made while the loop sleeps or is in a tick changes nothing
\* but the event: the sleep is not cut short and the tick is not aborted. With
\* the event cleared the tick in flight still ends at the sleep with its
\* result forwarded and the tape saved; after the sleep the loop suspends at
\* the pause wait without beginning a tick, and it leaves the pause wait only
\* by resume() or stop().
C36_PauseTakesEffectAtWait ==
    [][/\ (last_call'.op = "pause" /\ loopPc \in {"sleep", "think", "callback"}) =>
             UNCHANGED <<running, loopPc, must_cancel, tick_count, tick_saved>>
       /\ (~pause_event /\ ~must_cancel /\ loopPc' # loopPc) =>
             CASE loopPc = "think" ->
                    /\ loopPc' = "callback"
                    /\ UNCHANGED <<tick_count, pause_event>>
               [] loopPc = "callback" ->
                    /\ loopPc' = "sleep" /\ tick_saved'
                    /\ UNCHANGED <<tick_count, pause_event>>
               [] loopPc = "sleep" ->
                    /\ loopPc' = IF running THEN "pause_wait" ELSE "done"
                    /\ UNCHANGED <<tick_count, tick_saved, pause_event>>
               [] loopPc = "pause_wait" ->
                    /\ loopPc' = "woken"
                    /\ last_call'.op \in {"resume", "stop"}
               [] OTHER -> TRUE]_vars

\* The loop tasks of the Heartbeat that are not done.
LiveLoops == orphans + (IF LoopAlive THEN 1 ELSE 0)

\* C39: after any sequence of start(), stop(), pause(), resume() and
\* task.cancel() at most one loop task of the Heartbeat is alive, so at most
\* one tick is in flight.
C39_OneLoop ==
    LiveLoops <= 1

\* A first loop ran a tick and was stopped; start() has spawned a second loop
\* after the first one had finished.
C39_Witness ==
    /\ last_call = [op |-> "start", res |-> "ok", again |-> FALSE]
    /\ loopPc = "spawned" /\ running /\ tick_count = 1
    /\ LiveLoops = 1

\* C38: when start() has succeeded the Heartbeat is not paused, whatever
\* pause() and resume() calls were made while it was stopped, so that the loop
\* reaches its first tick with no resume().
C38_StartedIsNotPaused ==
    [][(last_call'.op = "start" /\ last_call'.res = "ok") => pause_event']_vars

(***************************************************************************)
(* Brain._dispatch_tool                                                    *)
(*                                                                         *)
(* A tool request is abstracted to what decides the path through           *)
(* _dispatch_tool: the tool name, the shape of the argument payload, and   *)
(* the class of the exception the tape, the codebase or the sandboxed code *)
(* raises when the operation is reached with usable arguments.             *)
(***************************************************************************)
TapeTools == {"tape_read", "tape_write", "tape_move", "tape_jump", "tape_scan", "tape_status"}
CodeTools == {"code_read", "code_write", "code_delete", "code_list", "code_exec"}
ToolNames == TapeTools \cup CodeTools
RequestNames == ToolNames \cup {"bogus"}

\* "ok": the keys the branch reads are there with usable values; "missing": a
\* key is absent (a payload that was None or empty is replaced by {});
\* "mistyped": a value of a type the operation rejects; "not_mapping": the
\* payload is not a dict.
ArgShapes == {"ok", "missing", "mistyped", "not_mapping"}

\* What the sandbox raises in code it executes: the ImportError of safe_import
\* for a module that is not allowed, and the NameError on the use of a builtin
\* that _make_safe_builtins left out.
SandboxViolations == {"ImportError", "NameError"}

\* Exception classes as the except clauses of _dispatch_tool tell them apart.
\* "Exception": any other subclass of Exception. "BadStrException": a subclass
\* of Exception whose __str__ raises. "BaseException": a BaseException that is
\* not an Exception (SystemExit, KeyboardInterrupt, BaseException itself).
ExcClasses ==
    SandboxViolations \cup
    {"CoreProtectionError", "PermissionError", "FileNotFoundError", "Exception",
     "BadStrException", "BaseException"}

\* The keys each branch reads with args[...]; tape_scan reads with args.get.
ArgKeys(name) ==
    CASE name = "tape_write" -> {"value"}
      [] name = "tape_move" -> {"direction"}
      [] name = "tape_jump" -> {"x", "y", "z"}
      [] name \in {"code_read", "code_delete", "code_exec"} -> {"path"}
      [] name = "code_write" -> {"path", "content"}
      [] OTHER -> {}

\* What the operation behind each tool raises when called with usable arguments.
MayRaise(name) ==
    CASE name \in {"tape_move", "tape_jump", "tape_scan"} -> {"Exception"}
      [] name = "code_read" -> {"PermissionError", "FileNotFoundError", "Exception"}
      [] name = "code_write" -> {"CoreProtectionError", "PermissionError", "Exception"}
      [] name = "code_delete" ->
           {"CoreProtectionError", "PermissionError", "FileNotFoundError", "Exception"}
      [] name = "code_list" -> {"Exception"}
      [] name = "code_exec" -> ExcClasses
      [] OTHER -> {}

Requests ==
    {r \in [name : RequestNames, args : ArgShapes, exc : ExcClasses \cup {"none"}] :
        r.exc \in MayRaise(r.name) \cup {"none"}}

\* The exception raised inside the try block, "none" if the branch returns.
Raised(r) ==
    IF r.name \notin ToolNames THEN "none"
    ELSE IF r.args = "not_mapping" /\ (ArgKeys(r.name) # {} \/ r.name = "tape_scan")
         THEN "Exception"
    ELSE IF r.args = "missing" /\ ArgKeys(r.name) # {} THEN "Exception"
    ELSE IF r.args = "mistyped" /\ (ArgKeys(r.name) # {} \/ r.name = "tape_scan")
         THEN "Exception"
    ELSE r.exc

\* The except clauses, in their order.
Handle(e) ==
    CASE e \in {"CoreProtectionError", "PermissionError"} ->
           [kind |-> "return", text |-> "PROTECTION ERROR"]
      [] e = "FileNotFoundError" -> [kind |-> "return", text |-> "FILE NOT FOUND"]
      [] e \in {"Exception"} \cup SandboxViolations ->
           [kind |-> "return", text |-> "ERROR"]
      [] OTHER -> [kind |-> "raise", text |-> e]

\* _dispatch_tool with an else branch that raises for a name it does not know.
DispatchUnknownRaises(r) ==
    IF Raised(r) # "none" THEN Handle(Raised(r))
    ELSE IF r.name \in ToolNames THEN [kind |-> "return", text |-> "result"]
    ELSE [kind |-> "raise", text |-> "Exception"]

\* _dispatch_tool(name, args)
Dispatch(r) ==
    IF Raised(r) # "none" THEN Handle(Raised(r))
    ELSE IF r.name \in ToolNames THEN [kind |-> "return", text |-> "result"]
    ELSE [kind |-> "return", text |-> "Unknown tool"]

Pending == [kind |-> "pending", text |-> ""]

DispatchTool ==
    /\ outcome = Pending
    /\ outcome' = Dispatch(request)
    /\ UNCHANGED <<request, hvars, botvars, bvars, cvars, fvars, tvars, svars>>

InitTool ==
    /\ InitHeartbeat /\ InitBot /\ InitBrainIdle /\ InitCaller /\ InitFilesIdle
    /\ InitTapeIdle /\ InitSandboxIdle
    /\ request \in Requests
    /\ outcome = Pending

NextTool == DispatchTool

SpecTool == InitTool /\ [][NextTool]_vars

\* C7: dispatching any tool request returns a result string and never
\* propagates a fault out of dispatch.
C7_DispatchNeverRaises ==
    outcome # Pending => outcome.kind = "return"

(***************************************************************************)
(* Brain.think and Brain.clear_history                                     *)
(*                                                                         *)
(* A message is its role, its content and the tool requests it carries.    *)
(* The backend is a stub chosen per think() call: it requests `k` copies   *)
(* of one tool request in every round before round `last`, and in round    *)
(* `last` it ends the exchange the way `mode` says.                        *)
(***************************************************************************)
max_tool_rounds == 10
Sentinel == "(max tool-call depth reached)"
SysPrompts == {"p1", "p2"}
UserMessage == "u"

Msg(role, content, tool_calls) ==
    [role |-> role, content |-> content, tool_calls |-> tool_calls]

\* The tool requests the stub backend issues: one that returns a result and one
\* whose sandboxed code raises a BaseException.
StubRequests ==
    {[name |-> "tape_read", args |-> "missing", exc |-> "none"],
     [name |-> "code_exec", args |-> "ok", exc |-> "BaseException"]}
\* The round in which the stub stops requesting tools (max_tool_rounds + 1: never).
LastRounds == {1, 2, max_tool_rounds, max_tool_rounds + 1}
\* How the stub ends the exchange: a final answer with text, a final answer with
\* no content, or the backend call raising.
Modes == {"text", "empty", "raise"}
\* Besides, two stubs that request a tool in the first round and answer in the
\* second: one asks for a tool that does not exist, one writes "x" to the tape.
Stubs ==
    [req : StubRequests, k : {1, MaxToolCalls}, last : LastRounds, mode : Modes]
    \cup [req : {[name |-> "bogus", args |-> "ok", exc |-> "none"]},
          k : {1, MaxToolCalls}, last : {2}, mode : {"text"}]
    \cup [req : {[name |-> "tape_write", args |-> "ok", exc |-> "none"]},
          k : {1}, last : {2}, mode : {"text"}]

\* s[-n:] of Python for n >= 0 (s[-0:] is all of s).
PySuffix(s, n) ==
    IF n = 0 \/ n >= Len(s) THEN s ELSE SubSeq(s, Len(s) - n + 1, Len(s))

\* The upsert with the overwrite branch lost: a system message already there
\* keeps its old content.
UpsertSystemNoOverwrite(h, p) ==
    IF h = <<>> \/ h[1].role # "system"
    THEN <<Msg("system", p, <<>>)>> \o h
    ELSE h

\* think(), lines 290-293: insert the system message or overwrite its content.
\* Only one system dict is ever created, and slicing copies references: every
\* system entry of the list is that dict, so the overwrite shows in all of them.
UpsertSystem(h, p) ==
    IF h = <<>> \/ h[1].role # "system"
    THEN <<Msg("system", p, <<>>)>> \o h
    ELSE [i \in DOMAIN h |->
            IF h[i].role = "system" THEN [h[i] EXCEPT !.content = p] ELSE h[i]]

\* Brain._trim_history
TrimHistory(h, m) ==
    IF Len(h) > m THEN SubSeq(h, 1, 1) \o PySuffix(h, m - 1) ELSE h

\* think() up to its first backend call.
Think(p, st) ==
    /\ bpc = "idle"
    /\ calls < MaxCalls
    /\ history' = TrimHistory(
                     Append(UpsertSystem(history, p), Msg("user", UserMessage, <<>>)),
                     max_history)
    /\ last_prompt' = p
    /\ stub' = st
    /\ tool_log' = <<>>
    /\ round' = 1
    /\ bpc' = "chat"
    /\ result' = [kind |-> "none", text |-> ""]
    /\ calls' = calls + 1
    /\ UNCHANGED max_history
    /\ UNCHANGED <<hvars, botvars, dvars, cvars, fvars, tvars, svars>>

\* The for loop over msg.tool_calls: the results of the dispatches that
\* returned, up to the first one that raised.
Results(reqs) ==
    LET outs == [i \in DOMAIN reqs |-> Dispatch(reqs[i])]
        bad == {i \in DOMAIN reqs : outs[i].kind = "raise"}
        n == IF bad = {} THEN Len(reqs)
             ELSE (CHOOSE i \in bad : \A j \in bad : i <= j) - 1
    IN [i \in 1..n |-> outs[i].text]

Propagates(reqs) == \E i \in DOMAIN reqs : Dispatch(reqs[i]).kind = "raise"

ToolMessages(texts) == [i \in DOMAIN texts |-> Msg("tool", texts[i], <<>>)]

\* The backend call raises: think() ends with that exception.
ChatRaises ==
    /\ bpc = "chat"
    /\ round = stub.last /\ stub.mode = "raise"
    /\ bpc' = "idle"
    /\ result' = [kind |-> "raise", text |-> "backend"]
    /\ UNCHANGED <<max_history, history, round, tool_log, last_prompt, stub, calls>>
    /\ UNCHANGED <<hvars, botvars, dvars, cvars, fvars, tvars, svars>>

\* The backend answers without tool requests: think() returns its content, or "".
ChatFinal ==
    /\ bpc = "chat"
    /\ round = stub.last /\ stub.mode # "raise"
    /\ LET content == IF stub.mode = "text" THEN "answer" ELSE "None"
       IN /\ history' = Append(history, Msg("assistant", content, <<>>))
          /\ result' = [kind |-> "return",
                        text |-> IF stub.mode = "text" THEN "answer" ELSE ""]
    /\ bpc' = "idle"
    /\ UNCHANGED <<max_history, round, tool_log, last_prompt, stub, calls>>
    /\ UNCHANGED <<hvars, botvars, dvars, cvars, fvars, tvars, svars>>

\* The backend answers with tool requests: each is dispatched, logged and
\* answered with a tool message; then the next backend call is made, or the
\* rounds are used up.
ChatTools ==
    /\ bpc = "chat"
    /\ round < stub.last
    /\ LET reqs == [i \in 1..stub.k |-> stub.req]
           texts == Results(reqs)
           names == [i \in DOMAIN reqs |-> reqs[i].name]
       IN /\ history' = Append(history, Msg("assistant", "None", names))
                          \o ToolMessages(texts)
          /\ tool_log' = tool_log \o
                           [i \in DOMAIN texts |->
                              [tool |-> reqs[i].name, args |-> reqs[i].args,
                               result |-> texts[i]]]
          /\ IF Propagates(reqs)
             THEN /\ bpc' = "idle"
                  /\ result' = [kind |-> "raise", text |-> "tool"]
                  /\ UNCHANGED round
             ELSE IF round = max_tool_rounds
             THEN /\ bpc' = "idle"
                  /\ result' = [kind |-> "return", text |-> Sentinel]
                  /\ UNCHANGED round
             ELSE /\ round' = round + 1
                  /\ UNCHANGED <<bpc, result>>
          \* the tape_write branch of _dispatch_tool: self.tape.write(args["value"])
          /\ cells' = IF \E i \in DOMAIN texts : reqs[i].name = "tape_write"
                      THEN [c \in DOMAIN cells \cup {head} |->
                               IF c = head THEN "x" ELSE cells[c]]
                      ELSE cells
    /\ UNCHANGED <<max_history, last_prompt, stub, calls>>
    /\ UNCHANGED <<hvars, botvars, dvars, cvars, fvars, head, tape_call, tape_ops, svars>>

\* Brain.clear_history
ClearHistory ==
    /\ bpc = "idle"
    /\ history # <<>>
    /\ history' = IF history[1].role = "system" THEN <<history[1]>> ELSE <<>>
    /\ UNCHANGED <<max_history, bpc, round, tool_log, result, last_prompt, stub, calls>>
    /\ UNCHANGED <<hvars, botvars, dvars, cvars, fvars, tvars, svars>>

InitBrain ==
    /\ InitHeartbeat /\ InitBot /\ InitToolIdle /\ InitCaller /\ InitFilesIdle
    /\ InitTapeIdle /\ InitSandboxIdle
    /\ max_history \in 1..MaxHist
    /\ history = <<>>
    /\ bpc = "idle"
    /\ round = 0
    /\ tool_log = <<>>
    /\ result = [kind |-> "none", text |-> ""]
    /\ last_prompt = ""
    /\ stub = InitStub
    /\ calls = 0

NextBrain ==
    \/ \E p \in SysPrompts, st \in Stubs : Think(p, st)
    \/ ChatRaises
    \/ ChatFinal
    \/ ChatTools
    \/ ClearHistory

SpecBrain == InitBrain /\ [][NextBrain]_vars

(***************************************************************************)
(* CodebaseRW.read_file / write_file / delete_file                         *)
(*                                                                         *)
(* A relative path is given as its parts (pathlib has dropped "." and      *)
(* empty parts, ".." parts stay). There are no symbolic links, so          *)
(* Path.resolve() is the lexical normalisation os.path.realpath does for   *)
(* "..". One call is made on each of a few file systems.                   *)
(***************************************************************************)
MaxPathLen == 5     \* parts of a relative path

Segs == {"..", "extensions", "main.py", "a.py", "proj2"}
RelPaths == UNION {[1..n -> Segs] : n \in 1..MaxPathLen}

\* The characters of a name, for str(path).
Spell(name) ==
    CASE name = "proj" -> <<"p", "r", "o", "j">>
      [] name = "proj2" -> <<"p", "r", "o", "j", "2">>
      [] name = "extensions" -> <<"e", "x", "t", "e", "n", "s", "i", "o", "n", "s">>
      [] name = "main.py" -> <<"m", "a", "i", "n", ".", "p", "y">>
      [] name = "a.py" -> <<"a", ".", "p", "y">>
      [] name = "extensions.md" ->
           <<"e", "x", "t", "e", "n", "s", "i", "o", "n", "s", ".", "m", "d">>
      [] OTHER -> <<".", ".">>

\* str(path) of an absolute path.
RECURSIVE Str(_)
Str(abs) ==
    IF abs = <<>> THEN <<"/">>
    ELSE IF Len(abs) = 1 THEN <<"/">> \o Spell(abs[1])
    ELSE Str(SubSeq(abs, 1, Len(abs) - 1)) \o <<"/">> \o Spell(abs[Len(abs)])

\* s.startswith(t)
StartsWith(s, t) == Len(s) >= Len(t) /\ SubSeq(s, 1, Len(t)) = t

\* (base / rel_path).resolve(): ".." drops the last name, at "/" it stays.
RECURSIVE Resolve(_, _)
Resolve(abs, parts) ==
    IF parts = <<>> THEN abs
    ELSE LET h == Head(parts)
             next == IF h = ".."
                     THEN IF abs = <<>> THEN <<>> ELSE SubSeq(abs, 1, Len(abs) - 1)
                     ELSE Append(abs, h)
         IN Resolve(next, Tail(parts))

\* CodebaseRW._is_core_protected
IsCoreProtected(parts) ==
    \/ parts # <<>> /\ parts[Len(parts)] \in CORE_FILES
    \/ parts = <<>>
    \/ parts[1] # "extensions"

\* The security test of all three operations.
InsideRootTest(target) == StartsWith(Str(target), Str(PROJECT_ROOT))

\* A proper ancestor of the path is a regular file.
UnderAFile(t) == \E k \in 1..(Len(t) - 1) : SubSeq(t, 1, k) \in DOMAIN files
\* Path.exists()
Exists(t) == ~UnderAFile(t) /\ (t \in DOMAIN files \/ t \in dirs)
Ancestors(t) == {SubSeq(t, 1, k) : k \in 0..(Len(t) - 1)}

FsIdle == fs_call = NoFsCall
notFs == UNCHANGED <<hvars, botvars, bvars, dvars, cvars, tvars, scope, sb_call>>
FsResult(op, p, res) == [op |-> op, path |-> p, res |-> res]

\* read_file(rel_path)
ReadFile(p) ==
    /\ FsIdle
    /\ LET target == Resolve(PROJECT_ROOT, p)
           res == IF ~InsideRootTest(target) THEN "PermissionError"
                  ELSE IF ~Exists(target) THEN "FileNotFoundError"
                  ELSE IF target \in dirs THEN "IsADirectoryError"
                  ELSE "ok"
       IN fs_call' = FsResult("read", p, res)
    /\ UNCHANGED <<files, dirs, registry>>
    /\ notFs

\* write_file(rel_path, content): the tests, mkdir of the parents, write_text.
WriteFile(p) ==
    /\ FsIdle
    /\ LET target == Resolve(PROJECT_ROOT, p)
           res == IF IsCoreProtected(p) THEN "CoreProtectionError"
                  ELSE IF ~InsideRootTest(target) THEN "PermissionError"
                  ELSE IF UnderAFile(target) THEN "NotADirectoryError"
                  ELSE IF target \in dirs THEN "IsADirectoryError"
                  ELSE "ok"
       IN /\ fs_call' = FsResult("write", p, res)
          /\ IF res = "ok"
             THEN /\ files' = [q \in DOMAIN files \cup {target} |->
                                 IF q = target THEN "new" ELSE files[q]]
                  /\ dirs' = dirs \cup Ancestors(target)
             ELSE UNCHANGED <<files, dirs>>
    /\ UNCHANGED registry
    /\ notFs

\* delete_file(rel_path)
DeleteFile(p) ==
    /\ FsIdle
    /\ LET target == Resolve(PROJECT_ROOT, p)
           res == IF IsCoreProtected(p) THEN "CoreProtectionError"
                  ELSE IF ~InsideRootTest(target) THEN "PermissionError"
                  ELSE IF ~Exists(target) THEN "FileNotFoundError"
                  ELSE IF target \in dirs THEN "IsADirectoryError"
                  ELSE "ok"
       IN /\ fs_call' = FsResult("delete", p, res)
          /\ IF res = "ok"
             THEN files' = [q \in DOMAIN files \ {target} |-> files[q]]
             ELSE UNCHANGED files
    /\ UNCHANGED <<dirs, registry>>
    /\ notFs

\* str of a relative path: its parts joined by "/".
RECURSIVE RelStr(_)
RelStr(parts) ==
    IF parts = <<>> THEN <<>>
    ELSE IF Len(parts) = 1 THEN Spell(parts[1])
    ELSE RelStr(SubSeq(parts, 1, Len(parts) - 1)) \o <<"/">> \o Spell(parts[Len(parts)])

\* s.endswith(t)
EndsWith(s, t) == Len(s) >= Len(t) /\ SubSeq(s, Len(s) - Len(t) + 1, Len(s)) = t

\* rel_path.replace("/", ".").removesuffix(".py")
ModuleName(p) ==
    LET dotted(str) == [i \in DOMAIN str |-> IF str[i] = "/" THEN "." ELSE str[i]]
        removesuffix(str) ==
            IF EndsWith(str, <<".", "p", "y">>) THEN SubSeq(str, 1, Len(str) - 3)
            ELSE str
    IN removesuffix(dotted(RelStr(p)))

\* hot_load(rel_path): the tests, the read, sandboxed_exec of the text, which
\* returns the namespace or raises what the text raises ("Raised"), and the
\* sys.modules entry. "ok" when the text was run to its end. The namespace is
\* named by the content it came from. The text runs in the interpreter of the
\* program: it can get hold of sys (object.__subclasses__(), BuiltinImporter,
\* load_module) and assign into sys.modules itself before it raises.
HotLoad(p) ==
    /\ FsIdle
    /\ LET target == Resolve(PROJECT_ROOT, p)
           res == IF ~StartsWith(RelStr(p), Spell("extensions") \o <<"/">>)
                  THEN "CoreProtectionError"
                  ELSE IF ~EndsWith(RelStr(p), <<".", "p", "y">>) THEN "ValueError"
                  ELSE IF ~Exists(target) THEN "FileNotFoundError"
                  ELSE IF target \in dirs THEN "IsADirectoryError"
                  ELSE "ok"
       IN IF res # "ok"
          THEN fs_call' = FsResult("exec", p, res) /\ UNCHANGED registry
          ELSE \/ /\ fs_call' = FsResult("exec", p, "Raised")
                  /\ UNCHANGED registry
               \/ /\ fs_call' = FsResult("exec", p, "Raised")
                  /\ \E m \in DOMAIN registry :
                        registry' = [registry EXCEPT ![m] = "tampered"]
               \/ /\ fs_call' = FsResult("exec", p, "ok")
                  /\ registry' = [m \in DOMAIN registry \cup {ModuleName(p)} |->
                                     IF m = ModuleName(p) THEN files[target]
                                     ELSE registry[m]]
    /\ UNCHANGED <<files, dirs>>
    /\ notFs

\* list_files(): every regular file below the project root with its type. No
\* name of the model begins with "." or is "__pycache__".
ListFiles ==
    /\ FsIdle
    /\ LET n == Len(PROJECT_ROOT)
           listed == {SubSeq(f, n + 1, Len(f)) :
                         f \in {g \in DOMAIN files :
                                   Len(g) > n /\ SubSeq(g, 1, n) = PROJECT_ROOT}}
           file_type(rel) ==
               IF rel[Len(rel)] \in CORE_FILES THEN "core"
               ELSE IF StartsWith(RelStr(rel), Spell("extensions")) THEN "extension"
               ELSE "other"
       IN fs_call' = [op |-> "list", path |-> <<>>, res |-> "ok",
                      listing |-> [rel \in listed |-> file_type(rel)]]
    /\ UNCHANGED <<files, dirs, registry>>
    /\ notFs

\* What the model may have put under extensions/ before the call.
ExtensionTrees ==
    {[f |-> {}, d |-> {}],
     [f |-> {<<"proj", "extensions", "a.py">>}, d |-> {}],
     [f |-> {<<"proj", "extensions", "a.py", "a.py">>},
      d |-> {<<"proj", "extensions", "a.py">>}]}

InitFiles ==
    /\ InitHeartbeat /\ InitBot /\ InitBrainIdle /\ InitToolIdle /\ InitCaller
    /\ InitTapeIdle
    /\ scope = {} /\ sb_call = NoImport
    \* nothing hot-loaded yet, or extensions/a.py and extensions/a.py/a.py
    \* loaded from what they held before
    /\ registry \in {[m \in {} |-> ""],
                     (ModuleName(<<"extensions", "a.py">>) :> "old")
                        @@ (ModuleName(<<"extensions", "a.py", "a.py">>) :> "old")}
    /\ \E t \in ExtensionTrees :
          /\ files = [q \in DOMAIN BaseFiles \cup t.f |->
                        IF q \in t.f THEN "new" ELSE BaseFiles[q]]
          /\ dirs = BaseDirs \cup t.d
    /\ fs_call = NoFsCall

\* The paths a call is tried with: all of them, until the call has been made.
PathsToTry == IF FsIdle THEN RelPaths ELSE {}

NextFiles ==
    \/ \E p \in PathsToTry : ReadFile(p)
    \/ \E p \in PathsToTry : WriteFile(p)
    \/ \E p \in PathsToTry : DeleteFile(p)
    \/ \E p \in PathsToTry : HotLoad(p)
    \/ ListFiles

SpecFiles == InitFiles /\ [][NextFiles]_vars

\* The call of this step, where it resolves, and component-wise containment.
FsCalls(ops) == FsIdle /\ fs_call'.op \in ops
Target == Resolve(PROJECT_ROOT, fs_call'.path)
Under(t, d) == Len(t) >= Len(d) /\ SubSeq(t, 1, Len(d)) = d

\* C18: a write or delete whose path resolves outside the extensions
\* directory does not succeed and changes no file.
C18_WritesOnlyUnderExtensions ==
    [][(FsCalls({"write", "delete"}) /\ ~Under(Target, EXTENSIONS_DIR)) =>
          (fs_call'.res # "ok" /\ UNCHANGED <<files, dirs>>)]_vars

\* C19: no write or delete creates, changes or removes a file whose leaf
\* name is a core file name.
C19_CoreFilesUntouched ==
    [][FsCalls({"write", "delete"}) =>
          \A f \in DOMAIN files \cup DOMAIN files' :
             f[Len(f)] \in CORE_FILES =>
                /\ f \in DOMAIN files /\ f \in DOMAIN files'
                /\ files'[f] = files[f]]_vars

\* C20: no read, write or delete succeeds on a path that resolves outside
\* the project root directory.
C20_NothingOutsideRoot ==
    [][(FsCalls({"read", "write", "delete"}) /\ ~Under(Target, PROJECT_ROOT)) =>
          (fs_call'.res # "ok" /\ UNCHANGED <<files, dirs>>)]_vars

\* C21: hot_load reads and executes a file only if the path resolves under
\* the extensions directory and names a .py file.
C21_HotLoadOnlyUnderExtensions ==
    [][(FsCalls({"exec"}) /\ fs_call'.res = "ok") =>
          /\ Under(Target, EXTENSIONS_DIR)
          /\ EndsWith(Str(Target), <<".", "p", "y">>)]_vars

\* C32: list_files gives a file the type "core" exactly if its leaf name is
\* a core file name, and otherwise the type "extension" exactly if the file
\* lies under the extensions directory; a file of type "extension" is one
\* whose path write_file does not refuse as protected.
C32_ListedTypes ==
    [][FsCalls({"list"}) =>
          \A rel \in DOMAIN fs_call'.listing :
             \E type \in {fs_call'.listing[rel]} :
                /\ type = "core" <=> rel[Len(rel)] \in CORE_FILES
                /\ type = "extension" <=>
                      /\ rel[Len(rel)] \notin CORE_FILES
                      /\ Under(PROJECT_ROOT \o rel, EXTENSIONS_DIR)
                /\ type = "extension" => ~IsCoreProtected(rel)]_vars

\* C33: a hot_load that runs its text to the end leaves the registry as it
\* was except for the module name of the path (the "/" of the path turned to
\* ".", the ".py" dropped), which now holds the namespace of the text just
\* run, whether or not the name was registered before; a hot_load that fails
\* leaves the registry as it was.
C33_RegistryHoldsLatest ==
    [][FsCalls({"exec"}) =>
          IF fs_call'.res = "ok"
          THEN /\ ModuleName(fs_call'.path) \in DOMAIN registry'
               /\ registry'[ModuleName(fs_call'.path)] = files[Target]
               /\ DOMAIN registry' = DOMAIN registry \cup {ModuleName(fs_call'.path)}
               /\ \A m \in DOMAIN registry :
                     m # ModuleName(fs_call'.path) => registry'[m] = registry[m]
          ELSE registry' = registry]_vars

(***************************************************************************)
(* TuringTape3D                                                            *)
(*                                                                         *)
(* Strings that the code takes apart (directions, cell keys) are sequences *)
(* of characters. A number handed to jump is given in halves, so that      *)
(* int() has something to truncate. A few calls are made one after another *)
(* on each of a few stores.                                                *)
(***************************************************************************)
MaxTapeOps == 2     \* tape calls made one after another

\* ---- str.strip() and str.lower() ----
LowerChar(c) ==
    CASE c = "A" -> "a" [] c = "B" -> "b" [] c = "C" -> "c" [] c = "D" -> "d"
      [] c = "E" -> "e" [] c = "F" -> "f" [] c = "G" -> "g" [] c = "H" -> "h"
      [] c = "I" -> "i" [] c = "K" -> "k" [] c = "L" -> "l" [] c = "N" -> "n"
      [] c = "O" -> "o" [] c = "P" -> "p" [] c = "R" -> "r" [] c = "T" -> "t"
      [] c = "U" -> "u" [] c = "W" -> "w" [] c = "X" -> "x" [] c = "Y" -> "y"
      [] c = "Z" -> "z"
      [] OTHER -> c
RECURSIVE Strip(_)
Strip(str) ==
    IF str = <<>> THEN str
    ELSE IF Head(str) = " " THEN Strip(Tail(str))
    ELSE IF str[Len(str)] = " " THEN Strip(SubSeq(str, 1, Len(str) - 1))
    ELSE str

\* ---- move ----
\* The alias table with "back" taken for "forward".
aliasesBackIsForward ==
    (<<"u", "p">> :> <<"+", "y">>) @@ (<<"d", "o", "w", "n">> :> <<"-", "y">>)
    @@ (<<"r", "i", "g", "h", "t">> :> <<"+", "x">>)
    @@ (<<"l", "e", "f", "t">> :> <<"-", "x">>)
    @@ (<<"f", "o", "r", "w", "a", "r", "d">> :> <<"+", "z">>)
    @@ (<<"b", "a", "c", "k", "w", "a", "r", "d">> :> <<"-", "z">>)
    @@ (<<"b", "a", "c", "k">> :> <<"+", "z">>)

\* The aliases dict of move.
aliases ==
    (<<"u", "p">> :> <<"+", "y">>) @@ (<<"d", "o", "w", "n">> :> <<"-", "y">>)
    @@ (<<"r", "i", "g", "h", "t">> :> <<"+", "x">>)
    @@ (<<"l", "e", "f", "t">> :> <<"-", "x">>)
    @@ (<<"f", "o", "r", "w", "a", "r", "d">> :> <<"+", "z">>)
    @@ (<<"b", "a", "c", "k", "w", "a", "r", "d">> :> <<"-", "z">>)
    @@ (<<"b", "a", "c", "k">> :> <<"-", "z">>)

\* The direction table with the bare axis letter taken for the positive axis.
DIRECTIONSWithBareAxis ==
    (<<"+", "x">> :> <<1, 0, 0>>) @@ (<<"-", "x">> :> <<-1, 0, 0>>)
    @@ (<<"+", "y">> :> <<0, 1, 0>>) @@ (<<"-", "y">> :> <<0, -1, 0>>)
    @@ (<<"+", "z">> :> <<0, 0, 1>>) @@ (<<"-", "z">> :> <<0, 0, -1>>)
    @@ (<<"x">> :> <<1, 0, 0>>)

DIRECTIONS ==
    (<<"+", "x">> :> <<1, 0, 0>>) @@ (<<"-", "x">> :> <<-1, 0, 0>>)
    @@ (<<"+", "y">> :> <<0, 1, 0>>) @@ (<<"-", "y">> :> <<0, -1, 0>>)
    @@ (<<"+", "z">> :> <<0, 0, 1>>) @@ (<<"-", "z">> :> <<0, 0, -1>>)

\* direction.strip().lower(), then aliases.get(direction, direction)
Canonical(direction) ==
    LET lower(stripped) == [i \in DOMAIN stripped |-> LowerChar(stripped[i])]
        get(d) == IF d \in DOMAIN aliases THEN aliases[d] ELSE d
    IN get(lower(Strip(direction)))

\* ---- jump ----
\* int(x) of a number given in halves, rounding down where int() truncates.
IntOfFloor(halves) == halves \div 2

\* int(x) of a number given in halves: truncation toward zero.
IntOf(halves) == IF halves >= 0 THEN halves \div 2 ELSE -((-halves) \div 2)

\* ---- scan_neighborhood ----
Abs(n) == IF n >= 0 THEN n ELSE -n

\* The test of scan with a sum of the distances for the three tests.
InRadiusSum(c, h, radius) ==
    Abs(c[1] - h[1]) + Abs(c[2] - h[2]) + Abs(c[3] - h[3]) <= radius

\* The test of the loop of scan_neighborhood.
InRadius(c, h, radius) ==
    /\ Abs(c[1] - h[1]) <= radius
    /\ Abs(c[2] - h[2]) <= radius
    /\ Abs(c[3] - h[3]) <= radius

\* ---- to_dict and from_dict ----
\* The digits of a natural number, most significant first.
RECURSIVE Digits(_)
Digits(n) ==
    LET d == <<"0", "1", "2", "3", "4", "5", "6", "7", "8", "9">>
    IN IF n < 10 THEN <<d[n + 1]>> ELSE Digits(n \div 10) \o <<d[(n % 10) + 1]>>

\* f"{x}" that drops the sign of a negative integer.
FmtUnsigned(n) == Digits(Abs(n))

\* f"{x}" of an integer.
Fmt(n) == IF n < 0 THEN <<"-">> \o Digits(-n) ELSE Digits(n)

\* f"{cx},{cy},{cz}"
Key(c) == Fmt(c[1]) \o <<",">> \o Fmt(c[2]) \o <<",">> \o Fmt(c[3])

\* key.split(",")
RECURSIVE Split(_)
Split(str) ==
    IF \A i \in DOMAIN str : str[i] # "," THEN <<str>>
    ELSE LET i == CHOOSE j \in DOMAIN str :
                      str[j] = "," /\ \A k \in 1..(j - 1) : str[k] # ","
         IN <<SubSeq(str, 1, i - 1)>> \o Split(SubSeq(str, i + 1, Len(str)))

\* int(part) of a decimal string with an optional sign.
RECURSIVE ParseInt(_)
ParseInt(str) ==
    LET d == <<"0", "1", "2", "3", "4", "5", "6", "7", "8", "9">>
        digit(c) == (CHOOSE i \in DOMAIN d : d[i] = c) - 1
    IN IF Head(str) = "-" THEN -ParseInt(Tail(str))
       ELSE IF Len(str) = 1 THEN digit(str[1])
       ELSE 10 * ParseInt(SubSeq(str, 1, Len(str) - 1)) + digit(str[Len(str)])

\* The "cells" entry built by the loops of to_dict and scan_neighborhood: one
\* entry per selected coordinate, keyed by its formatted triple.
Keyed(store, coords) ==
    [k \in {Key(c) : c \in coords} |->
        store[CHOOSE c \in coords : Key(c) = k]]

to_dict(h, store) == [head |-> h, cells |-> Keyed(store, DOMAIN store)]

\* from_dict: the cursor and cell map of the tape it builds; data.get gives
\* the origin for a missing "head" and no cells for a missing "cells". Every
\* value of "cells" is stored as it is.
from_dict(data) ==
    LET coord(k) == LET parts == Split(k)
                    IN <<ParseInt(parts[1]), ParseInt(parts[2]), ParseInt(parts[3])>>
        given == IF "cells" \in DOMAIN data THEN data.cells ELSE [k \in {} |-> ""]
        coords == {coord(k) : k \in DOMAIN given}
    IN [head |-> IF "head" \in DOMAIN data THEN data.head ELSE <<0, 0, 0>>,
        cells |-> [c \in coords |->
                      given[CHOOSE k \in DOMAIN given : coord(k) = c]]]

\* ---- the operations ----
\* One call of a tape operation returned (kind "ok") or raised (kind names the
\* exception class); nothing but the tape is touched.
TapeCall(op, arg, kind, val) ==
    /\ tape_ops < MaxTapeOps
    /\ tape_ops' = tape_ops + 1
    /\ tape_call' = [op |-> op, arg |-> arg, kind |-> kind, val |-> val]
    /\ UNCHANGED <<hvars, botvars, bvars, dvars, cvars, fvars, svars>>

read ==
    /\ TapeCall("read", <<>>, "ok", IF head \in DOMAIN cells THEN cells[head] ELSE "")
    /\ UNCHANGED <<head, cells>>

\* write that stores the empty string like any other value.
writeKeepsEmpty(value) ==
    IF value.type # "str"
    THEN /\ TapeCall("write", value, "TypeError", <<>>)
         /\ UNCHANGED <<head, cells>>
    ELSE /\ cells' = [c \in DOMAIN cells \cup {head} |->
                         IF c = head THEN value.s ELSE cells[c]]
         /\ TapeCall("write", value, "ok", <<>>)
         /\ UNCHANGED head

\* value is [type, s]: the class of the Python value and, for a str, its text.
write(value) ==
    IF value.type # "str"
    THEN /\ TapeCall("write", value, "TypeError", <<>>)
         /\ UNCHANGED <<head, cells>>
    ELSE /\ cells' = IF value.s = ""
                     THEN [c \in DOMAIN cells \ {head} |-> cells[c]]
                     ELSE [c \in DOMAIN cells \cup {head} |->
                              IF c = head THEN value.s ELSE cells[c]]
         /\ TapeCall("write", value, "ok", <<>>)
         /\ UNCHANGED head

move(direction) ==
    \E d \in {Canonical(direction)} :
        IF d \notin DOMAIN DIRECTIONS
        THEN /\ TapeCall("move", direction, "ValueError", <<>>)
             /\ UNCHANGED <<head, cells>>
        ELSE /\ \E delta \in {DIRECTIONS[d]} :
                    head' = <<head[1] + delta[1], head[2] + delta[2],
                              head[3] + delta[3]>>
             /\ TapeCall("move", direction, "ok", <<>>)
             /\ UNCHANGED cells

\* jump that converts and stores one coordinate after the other: those before
\* the one int() refuses are stored when it raises.
jumpStoresEachInTurn(x, y, z) ==
    \E first \in {IF x.type # "number" THEN 1 ELSE IF y.type # "number" THEN 2
                   ELSE IF z.type # "number" THEN 3 ELSE 4} :
        /\ head' = <<IF first > 1 THEN IntOf(x.halves) ELSE head[1],
                     IF first > 2 THEN IntOf(y.halves) ELSE head[2],
                     IF first > 3 THEN IntOf(z.halves) ELSE head[3]>>
        /\ TapeCall("jump", <<x, y, z>>,
                    IF first = 4 THEN "ok"
                    ELSE IF <<x, y, z>>[first].type = "NoneType" THEN "TypeError"
                    ELSE "ValueError", <<>>)
        /\ UNCHANGED cells

\* x, y and z are what was passed for each coordinate: a number, given in
\* halves, a text int() does not read as an integer, or None. The three int()
\* calls are made in turn and the tuple is assigned when all have returned.
jump(x, y, z) ==
    \E first \in {IF x.type # "number" THEN 1 ELSE IF y.type # "number" THEN 2
                   ELSE IF z.type # "number" THEN 3 ELSE 4} :
        IF first < 4
        THEN /\ TapeCall("jump", <<x, y, z>>,
                         IF <<x, y, z>>[first].type = "NoneType" THEN "TypeError"
                         ELSE "ValueError", <<>>)
             /\ UNCHANGED <<head, cells>>
        ELSE /\ head' = <<IntOf(x.halves), IntOf(y.halves), IntOf(z.halves)>>
             /\ TapeCall("jump", <<x, y, z>>, "ok", <<>>)
             /\ UNCHANGED cells

scan_neighborhood(radius) ==
    /\ IF radius < 0
       THEN TapeCall("scan", radius, "ValueError", <<>>)
       ELSE TapeCall("scan", radius, "ok",
                     Keyed(cells, {c \in DOMAIN cells : InRadius(c, head, radius)}))
    /\ UNCHANGED <<head, cells>>

status ==
    /\ TapeCall("status", <<>>, "ok",
                [head |-> head,
                 current |-> IF head \in DOMAIN cells THEN cells[head] ELSE "",
                 total |-> Cardinality(DOMAIN cells)])
    /\ UNCHANGED <<head, cells>>

\* save followed by load of the file it wrote. json.dumps and json.loads carry
\* a dict of str keys and str values and a list of ints over unchanged; the
\* keys are made by to_dict and taken apart by from_dict.
SaveLoad ==
    LET tape == from_dict(to_dict(head, cells))
    IN /\ head' = tape.head
       /\ cells' = tape.cells
       /\ TapeCall("load", <<>>, "ok", to_dict(head, cells))

\* load(path) at startup: the tape is the one built from the file, a new one if
\* there is no file. The file is whatever was left at that path.
load(file) ==
    /\ \E tape \in {IF file.exists THEN from_dict(file.data)
                     ELSE [head |-> Origin, cells |-> [c \in {} |-> ""]]} :
          /\ head' = tape.head
          /\ cells' = tape.cells
    /\ TapeCall("restore", <<>>, "ok", <<>>)

\* ---- the calls made ----
\* The 6 tokens and 7 aliases, some strings that are neither, and each of them
\* again in upper case between blanks.
MoveDirections ==
    LET plain == DOMAIN DIRECTIONS \cup DOMAIN aliases
                 \cup {<<>>, <<"x">>, <<"+", "w">>, <<"b", "a", "c">>,
                       <<"u", " ", "p">>, <<"+", "x", "y">>}
        upper == <<"A", "B", "C", "D", "E", "F", "G", "H", "I", "K", "L", "N", "O",
                   "P", "R", "T", "U", "W", "X", "Y", "Z">>
        shout(str) == [i \in DOMAIN str |->
                          IF \E j \in DOMAIN upper : LowerChar(upper[j]) = str[i]
                          THEN upper[CHOOSE j \in DOMAIN upper :
                                         LowerChar(upper[j]) = str[i]]
                          ELSE str[i]]
    IN plain \cup {<<" ">> \o shout(str) \o <<" ", " ">> : str \in plain}

\* Stores the operations build from the empty one: up to two cells written.
InitTape ==
    /\ InitHeartbeat /\ InitBot /\ InitBrainIdle /\ InitToolIdle
    /\ InitCaller /\ InitFilesIdle /\ InitSandboxIdle
    /\ head \in {Origin, <<-10, 1, 11>>}
    /\ cells \in {[c \in {} |-> ""], (<<1, 1, 0>> :> "v"),
                  (<<1, 1, 0>> :> "v") @@ (<<-10, 2, 11>> :> "w")}
    /\ tape_call = NoTapeCall
    /\ tape_ops = 0

NextTape ==
    \/ read
    \/ \E value \in {[type |-> "str", s |-> ""], [type |-> "str", s |-> "v"],
                      [type |-> "str", s |-> "w"], [type |-> "int", s |-> "5"]} :
           write(value)
    \/ \E direction \in MoveDirections : move(direction)
    \* numbers in halves: -1.5, 10.5, 1000000.5 and so on
    \/ \E t \in {<<-3, 21, 2000001>>, <<-1, 0, 4>>, <<2, -21, 5>>} :
           jump([type |-> "number", halves |-> t[1]],
                [type |-> "number", halves |-> t[2]],
                [type |-> "number", halves |-> t[3]])
    \* a coordinate that int() refuses, in the first or in the last place
    \/ \E bad \in {[type |-> "text"], [type |-> "NoneType"]} :
           \/ jump(bad, [type |-> "number", halves |-> 4],
                   [type |-> "number", halves |-> -3])
           \/ jump([type |-> "number", halves |-> 4],
                   [type |-> "number", halves |-> -3], bad)
    \/ \E radius \in {-1, 0, 1, 2} : scan_neighborhood(radius)
    \/ status
    \/ SaveLoad

SpecTape == InitTape /\ [][NextTape]_vars

\* The files load() may find: none, files save() wrote, files with a field
\* missing, and a file with a cell whose value is the empty string.
TapeFiles ==
    {[exists |-> FALSE],
     [exists |-> TRUE, data |-> to_dict(<<2, 0, -1>>, (<<1, 1, 0>> :> "v"))],
     [exists |-> TRUE, data |-> [cells |-> (Key(<<-10, 2, 11>>) :> "w")]],
     [exists |-> TRUE, data |-> [head |-> <<1, 2, 3>>]],
     [exists |-> TRUE, data |-> [cells |-> (Key(<<1, 1, 0>>) :> "v") @@ (Key(Origin) :> "")]]}

\* The tape with load() among its calls.
NextTapeLoad ==
    \/ NextTape
    \/ \E file \in TapeFiles : load(file)

SpecTapeLoad == InitTape /\ [][NextTapeLoad]_vars

(***************************************************************************)
(* The sandbox (sandbox.py)                                                *)
(*                                                                         *)
(* Module names are sequences of characters. The code that sandboxed_exec  *)
(* runs is an arbitrary text: it asks for imports and follows attributes   *)
(* of the objects it has got hold of, in any order.                        *)
(***************************************************************************)
MaxImports == 2     \* import statements run by one sandboxed text

ALLOWED_MODULES ==
    {<<"m", "a", "t", "h">>,
     <<"r", "a", "n", "d", "o", "m">>,
     <<"s", "t", "r", "i", "n", "g">>,
     <<"r", "e">>,
     <<"j", "s", "o", "n">>,
     <<"d", "a", "t", "e", "t", "i", "m", "e">>,
     <<"t", "i", "m", "e">>,
     <<"c", "o", "l", "l", "e", "c", "t", "i", "o", "n", "s">>,
     <<"i", "t", "e", "r", "t", "o", "o", "l", "s">>,
     <<"f", "u", "n", "c", "t", "o", "o", "l", "s">>,
     <<"o", "p", "e", "r", "a", "t", "o", "r">>,
     <<"d", "e", "c", "i", "m", "a", "l">>,
     <<"f", "r", "a", "c", "t", "i", "o", "n", "s">>,
     <<"s", "t", "a", "t", "i", "s", "t", "i", "c", "s">>,
     <<"h", "a", "s", "h", "l", "i", "b">>,
     <<"h", "m", "a", "c">>,
     <<"b", "a", "s", "e", "6", "4">>,
     <<"c", "o", "p", "y">>,
     <<"e", "n", "u", "m">>,
     <<"d", "a", "t", "a", "c", "l", "a", "s", "s", "e", "s">>,
     <<"t", "y", "p", "i", "n", "g">>,
     <<"a", "b", "c">>,
     <<"t", "e", "x", "t", "w", "r", "a", "p">>,
     <<"u", "n", "i", "c", "o", "d", "e", "d", "a", "t", "a">>,
     <<"b", "i", "s", "e", "c", "t">>,
     <<"h", "e", "a", "p", "q">>,
     <<"a", "r", "r", "a", "y">>,
     <<"s", "t", "r", "u", "c", "t">>,
     <<"p", "p", "r", "i", "n", "t">>}

BLOCKED_MODULES ==
    {<<"o", "s">>,
     <<"s", "y", "s">>,
     <<"s", "u", "b", "p", "r", "o", "c", "e", "s", "s">>,
     <<"s", "h", "u", "t", "i", "l">>,
     <<"s", "i", "g", "n", "a", "l">>,
     <<"c", "t", "y", "p", "e", "s">>,
     <<"m", "u", "l", "t", "i", "p", "r", "o", "c", "e", "s", "s", "i", "n", "g">>,
     <<"t", "h", "r", "e", "a", "d", "i", "n", "g">>,
     <<"p", "a", "t", "h", "l", "i", "b">>,
     <<"g", "l", "o", "b">>,
     <<"t", "e", "m", "p", "f", "i", "l", "e">>,
     <<"i", "o">>,
     <<"s", "o", "c", "k", "e", "t">>,
     <<"h", "t", "t", "p">>,
     <<"u", "r", "l", "l", "i", "b">>,
     <<"r", "e", "q", "u", "e", "s", "t", "s">>,
     <<"a", "i", "o", "h", "t", "t", "p">>,
     <<"h", "t", "t", "p", "x">>,
     <<"f", "t", "p", "l", "i", "b">>,
     <<"s", "m", "t", "p", "l", "i", "b">>,
     <<"x", "m", "l", "r", "p", "c">>,
     <<"c", "o", "d", "e">>,
     <<"c", "o", "d", "e", "o", "p">>,
     <<"c", "o", "m", "p", "i", "l", "e">>,
     <<"c", "o", "m", "p", "i", "l", "e", "a", "l", "l">>,
     <<"i", "m", "p", "o", "r", "t", "l", "i", "b">>,
     <<"r", "u", "n", "p", "y">>,
     <<"a", "s", "t">>,
     <<"i", "n", "s", "p", "e", "c", "t">>,
     <<"g", "c">>,
     <<"w", "e", "a", "k", "r", "e", "f">>,
     <<"t", "r", "a", "c", "e", "b", "a", "c", "k">>,
     <<"p", "i", "c", "k", "l", "e">>,
     <<"s", "h", "e", "l", "v", "e">>,
     <<"m", "a", "r", "s", "h", "a", "l">>}

\* The names an import statement of the sandboxed text may give: every listed
\* name, some sub-namespaces, names that only begin like an allowed one, and
\* the empty name of a relative import.
ImportNames ==
    ALLOWED_MODULES \cup BLOCKED_MODULES
    \cup {<<>>,
          <<"c", "o", "l", "l", "e", "c", "t", "i", "o", "n", "s", ".", "a", "b", "c">>,
          <<"j", "s", "o", "n", ".", "t", "o", "o", "l">>,
          <<"m", "a", "t", "h", ".", "x">>,
          <<"m", "a", "t", "h", ".">>,
          <<"o", "s", ".", "p", "a", "t", "h">>,
          <<"s", "u", "b", "p", "r", "o", "c", "e", "s", "s", ".", "r", "u", "n">>,
          <<"m", "a", "t", "h", "x">>,
          <<"s", "t", "r", "i", "n", "g", "o", "l", "d">>,
          <<"c", "o", "p", "y", "r", "e", "g">>,
          <<"t", "i", "m", "e", "i", "t">>,
          <<"M", "a", "t", "h">>,
          <<".", "m", "a", "t", "h">>,
          <<"u", "n", "k", "n", "o", "w", "n">>,
          <<"r", "e", ".", "o", "s">>}

\* The sub-module test without the dot after the allowed name.
is_module_allowed_no_dot(module_name) ==
    \/ module_name \in ALLOWED_MODULES
    \/ \E allowed \in ALLOWED_MODULES : StartsWith(module_name, allowed)

\* _is_module_allowed: the two tests that return True; the block-list test and
\* the default both return False.
is_module_allowed(module_name) ==
    \/ module_name \in ALLOWED_MODULES
    \/ \E allowed \in ALLOWED_MODULES : StartsWith(module_name, allowed \o <<".">>)

\* The object an import statement binds: the modules whose attributes are
\* followed below, and any other module.
ModuleObject(name) ==
    CASE name = <<"r", "a", "n", "d", "o", "m">> -> "random"
      [] name \in {<<"j", "s", "o", "n">>,
                   <<"j", "s", "o", "n", ".", "t", "o", "o", "l">>} -> "json"
      [] OTHER -> "module"

\* safe_import(name), the __import__ of the sandboxed text. real_import finds
\* the allowed modules and two of the sub-modules asked for.
safe_import(name) ==
    /\ sb_call.n < MaxImports
    /\ LET installed ==
               ALLOWED_MODULES
               \cup {<<"c", "o", "l", "l", "e", "c", "t", "i", "o", "n", "s", ".",
                       "a", "b", "c">>,
                     <<"j", "s", "o", "n", ".", "t", "o", "o", "l">>}
           res == IF ~is_module_allowed(name) THEN "ImportError"
                  ELSE IF name \notin installed THEN "ModuleNotFoundError"
                  ELSE "ok"
       IN /\ sb_call' = [name |-> name, res |-> res,
                         allowed |-> IF res = "ImportError" THEN ALLOWED_MODULES
                                     ELSE {},
                         n |-> sb_call.n + 1]
          /\ scope' = IF res = "ok" THEN scope \cup {ModuleObject(name)} ELSE scope
    /\ UNCHANGED <<hvars, botvars, bvars, dvars, cvars, fvars, tvars, registry>>

\* What attribute access gives the text run by exec(code, sandbox_globals):
\* object is among the builtins left in scope and the class of every literal,
\* object.__subclasses__() holds BuiltinImporter, whose load_module gives sys
\* and with it sys.modules; random._os is os; json.codecs.builtins is the
\* real builtins module, with eval, exec, open and __import__.
Attributes ==
    {<<"object", "BuiltinImporter">>, <<"BuiltinImporter", "sys">>,
     <<"sys", "os">>, <<"sys", "builtins">>, <<"random", "os">>,
     <<"json", "codecs">>, <<"codecs", "builtins">>, <<"builtins", "socket">>}

\* The text reads an attribute of an object it holds.
GetAttribute(o, t) ==
    /\ <<o, t>> \in Attributes
    /\ o \in scope /\ t \notin scope
    /\ scope' = scope \cup {t}
    /\ UNCHANGED <<hvars, botvars, bvars, dvars, cvars, fvars, tvars, registry, sb_call>>

\* sandboxed_exec has built the globals and starts the text.
InitSandbox ==
    /\ InitHeartbeat /\ InitBot /\ InitBrainIdle /\ InitToolIdle /\ InitCaller
    /\ InitFilesIdle /\ InitTapeIdle
    /\ registry = [m \in {} |-> ""]
    /\ scope = {"object"}
    /\ sb_call = NoImport

NextSandbox ==
    \/ \E name \in ImportNames : safe_import(name)
    \/ \E o \in scope, t \in {"BuiltinImporter", "sys", "os", "builtins", "codecs",
                              "socket"} : GetAttribute(o, t)

SpecSandbox == InitSandbox /\ [][NextSandbox]_vars

(***************************************************************************)
(* Claims about the tick loop and the interrupt handler (checked under     *)
(* Spec).                                                                  *)
(***************************************************************************)
TickInFlight == loopPc = "think"
InterruptInFlight(h) == hpc[h] = "think"

\* C1: an interrupt handler that paused the Scheduler does not begin its
\* Dispatcher call while a tick's Dispatcher call is still in flight.
C1_InterruptWaitsForTick ==
    [][\A h \in did_pause :
         (~InterruptInFlight(h) /\ InterruptInFlight(h)') => ~TickInFlight]_vars

\* C2: the loop never begins a tick in a state where the Scheduler is paused.
C2_NoTickWhilePaused ==
    [][TickBegins => pause_event]_vars

\* C3: no tick is admitted (the Scheduler resumed, a tick begins) while an
\* interrupt handler that paused the Scheduler still has its Dispatcher call
\* in flight.
C3_NoTickWhileInterruptServed ==
    [][(TickBegins /\ pause_event) =>
          \A h \in did_pause : ~InterruptInFlight(h)]_vars

\* C4: two interrupt handlers never have Dispatcher calls in flight at the
\* same time, the Scheduler being paused by both.
C4_OneInterruptAtATime ==
    Cardinality({h \in did_pause : InterruptInFlight(h)}) <= 1

\* C5: a handler that paused the Scheduler leaves it not paused when the
\* handler finishes.
C5_HandlerLeavesResumed ==
    [][\A h \in Msgs :
         (hpc[h] # "done" /\ hpc'[h] = "done" /\ h \in did_pause) => pause_event']_vars

\* A step of the loop in which a step of the tick raises a fault other than
\* cancellation: a prompt function, think_fn, the callback or the save.
TickFault ==
    \/ TickBegins /\ loopPc' # "think"
    \/ \E o \in {"exception", "base"} : LoopThinkDone(o)
    \/ \E o, s \in Outcomes : (o # "ok" \/ s # "ok") /\ LoopCallbackDone(o, s)

\* C10: a fault raised by a step of a tick does not end the loop: the loop
\* goes on to sleep for the interval.
C10_TickFaultKeepsLoop ==
    [][TickFault => loopPc' = "sleep"]_vars

\* The loop leaves a tick whose think_fn call was made and goes to sleep.
TickToSleep == loopPc \in {"think", "callback"} /\ loopPc' = "sleep"

\* C11: every tick whose Dispatcher call was made has persisted the store
\* when the loop goes to sleep, also when the call or the callback raised.
C11_TickPersists ==
    [][TickToSleep => tick_saved']_vars

\* on_message invocation h leaves its try block after brain.think was called:
\* for the except block or straight for the finally block. Neither saves.
LeavesTry(h) ==
    /\ hpc[h] \in {"think", "stream", "reply"}
    /\ hpc'[h] \in {"err_reply", "done"}

\* C12: every interrupt whose Dispatcher call was made has persisted the
\* store when the handler is through with its response, also when the call,
\* the thought stream or the reply raised.
C12_InterruptPersists ==
    [][\A h \in Msgs : LeavesTry(h) => h \in saved']_vars

(***************************************************************************)
(* Claims about Brain.think (checked under SpecBrain).                     *)
(***************************************************************************)
ThinkEnded == calls > 0 /\ bpc = "idle"

\* The backend requested tools in every round of the think() call that just
\* ended and never raised: the exchange did not end with a final answer.
ToolsEveryRound ==
    /\ ThinkEnded
    /\ result # [kind |-> "raise", text |-> "backend"]
    /\ LET m == history[Len(history)]
       IN m.role = "tool" \/ (m.role = "assistant" /\ m.tool_calls # <<>>)

\* C6: think() makes at most 10 backend calls; with a backend that requests
\* one tool call in every round it makes exactly 10, returns the sentinel and
\* a tool_log of length 10.
C6_TenRoundsThenSentinel ==
    /\ round <= max_tool_rounds
    /\ (ToolsEveryRound /\ stub.k = 1) =>
          /\ round = max_tool_rounds
          /\ result = [kind |-> "return", text |-> Sentinel]
          /\ Len(tool_log) = max_tool_rounds

\* C8: once think() has been called, history[0] is the system message and
\* holds the system prompt of the most recent think() call, whatever think()
\* and clear_history() calls were made.
C8_SystemPromptFirst ==
    calls > 0 =>
        /\ history # <<>>
        /\ history[1].role = "system"
        /\ history[1].content = last_prompt

\* A second think() call has ended, after a trim that dropped messages.
C8_Witness ==
    /\ ThinkEnded
    /\ calls = 2
    /\ history[1] = Msg("system", "p2", <<>>)
    /\ \E i \in 2..Len(history) : history[i].role = "assistant"
    /\ Cardinality({i \in DOMAIN history : history[i].role = "user"}) = 1

\* The history before the trim of the think() step that was just taken.
Untrimmed == Append(UpsertSystem(history, last_prompt'), Msg("user", UserMessage, <<>>))

\* C9: right after the trim step the history holds at most max_history
\* messages, element 0 is the element 0 from before the trim and the rest is
\* the most recent messages of the remainder, in order.
C9_TrimKeepsWithinLimit ==
    [][calls' = calls + 1 =>
         /\ Len(history') <= max_history
         /\ history'[1] = Untrimmed[1]
         /\ LET n == Len(history') - 1
            IN SubSeq(history', 2, Len(history')) =
                 SubSeq(Untrimmed, Len(Untrimmed) - n + 1, Len(Untrimmed))]_vars

(***************************************************************************)
(* Claims about the tape (checked under SpecTape)                          *)
(***************************************************************************)
\* This step is a call of the tape operation op.
TapeStep(op) == tape_ops' = tape_ops + 1 /\ tape_call'.op = op

\* C22: a write of a non-empty string v leaves v in the cell at the cursor and
\* the read that follows returns v; a write of "" leaves the cursor's
\* coordinate out of the cell map and out of its serialized form, and the read
\* that follows returns ""; a write of a value that is not a string fails with
\* TypeError and leaves cursor and cell map as they were.
C22_WriteThenRead ==
    [][/\ (TapeStep("write") /\ tape_call'.arg.type = "str" /\ tape_call'.arg.s # "")
             => /\ tape_call'.kind = "ok"
                /\ head' \in DOMAIN cells'
                /\ cells'[head'] = tape_call'.arg.s
       /\ (TapeStep("write") /\ tape_call'.arg.type = "str" /\ tape_call'.arg.s = "")
             => /\ tape_call'.kind = "ok"
                /\ head' \notin DOMAIN cells'
                /\ Key(head') \notin DOMAIN to_dict(head', cells').cells
       /\ (TapeStep("write") /\ tape_call'.arg.type # "str")
             => /\ tape_call'.kind = "TypeError"
                /\ UNCHANGED <<head, cells>>
       /\ (tape_call.op = "write" /\ tape_call.kind = "ok" /\ TapeStep("read"))
             => tape_call'.val = tape_call.arg.s]_vars

\* A read returned "w" at the origin, where only a write of "w" just before it
\* can have put it (no store starts with a cell at the origin).
C22_Witness ==
    /\ tape_call.op = "read" /\ tape_call.val = "w"
    /\ head = Origin /\ tape_ops = 2

\* C23: no entry of the cell map maps to the empty string.
C23_Sparsity == \A c \in DOMAIN cells : cells[c] # ""

\* A write of "" was made at a coordinate and the cell map has no entry there,
\* while another cell is still stored.
C23_Witness ==
    /\ tape_call.op = "write" /\ tape_call.kind = "ok" /\ tape_call.arg.s = ""
    /\ head \notin DOMAIN cells
    /\ DOMAIN cells # {}

\* The unit vector of each of the 6 axis tokens and 7 aliases.
AxisOfToken ==
    (<<"+", "x">> :> <<1, 0, 0>>) @@ (<<"-", "x">> :> <<-1, 0, 0>>)
    @@ (<<"+", "y">> :> <<0, 1, 0>>) @@ (<<"-", "y">> :> <<0, -1, 0>>)
    @@ (<<"+", "z">> :> <<0, 0, 1>>) @@ (<<"-", "z">> :> <<0, 0, -1>>)
    @@ (<<"u", "p">> :> <<0, 1, 0>>)
    @@ (<<"d", "o", "w", "n">> :> <<0, -1, 0>>)
    @@ (<<"r", "i", "g", "h", "t">> :> <<1, 0, 0>>)
    @@ (<<"l", "e", "f", "t">> :> <<-1, 0, 0>>)
    @@ (<<"f", "o", "r", "w", "a", "r", "d">> :> <<0, 0, 1>>)
    @@ (<<"b", "a", "c", "k", "w", "a", "r", "d">> :> <<0, 0, -1>>)
    @@ (<<"b", "a", "c", "k">> :> <<0, 0, -1>>)

\* C24: a move whose direction, trimmed and lower-cased, is one of the 6 axis
\* tokens or one of the 7 aliases succeeds and sets the cursor to the old
\* cursor plus the unit vector of that axis ("back" and "backward" are -z).
C24_MoveFollowsAxis ==
    [][TapeStep("move") =>
          LET trimmed == Strip(tape_call'.arg)
              token == [i \in DOMAIN trimmed |-> LowerChar(trimmed[i])]
          IN token \in DOMAIN AxisOfToken =>
                /\ tape_call'.kind = "ok"
                /\ <<head'[1] - head[1], head'[2] - head[2], head'[3] - head[3]>>
                      = AxisOfToken[token]]_vars

\* " BACK  " was given at the cursor (-10, 1, 11) and the cursor went one step
\* down the z axis.
C24_Witness ==
    /\ tape_call.op = "move" /\ tape_call.kind = "ok"
    /\ tape_call.arg = <<" ", "B", "A", "C", "K", " ", " ">>
    /\ head = <<-10, 1, 10>> /\ tape_ops = 1

\* C25: a move whose direction, trimmed and lower-cased, is none of the 6 axis
\* tokens and none of the 7 aliases fails with ValueError and leaves the cursor
\* and the cell map as they were.
C25_InvalidDirectionRefused ==
    [][TapeStep("move") =>
          LET trimmed == Strip(tape_call'.arg)
              token == [i \in DOMAIN trimmed |-> LowerChar(trimmed[i])]
          IN token \notin DOMAIN AxisOfToken =>
                /\ tape_call'.kind = "ValueError"
                /\ UNCHANGED <<head, cells>>]_vars

\* The bare axis letter " X  " was refused with cells stored.
C25_Witness ==
    /\ tape_call.op = "move" /\ tape_call.kind = "ValueError"
    /\ tape_call.arg = <<" ", "X", " ", " ">>
    /\ DOMAIN cells # {}

\* C26: a jump succeeds from every cursor and cell map and sets each coordinate
\* of the cursor to the number given, truncated: the integer of the same sign
\* that is less than one away from it, toward zero (the numbers are in halves).
C26_JumpTruncates ==
    [][(TapeStep("jump") /\ \A i \in 1..3 : tape_call'.arg[i].type = "number") =>
          /\ tape_call'.kind = "ok"
          /\ \A i \in 1..3 :
                \E halves \in {tape_call'.arg[i].halves} :
                   /\ halves >= 0 => head'[i] >= 0
                   /\ halves <= 0 => head'[i] <= 0
                   /\ 2 * Abs(head'[i]) <= Abs(halves)
                   /\ Abs(halves) - 2 * Abs(head'[i]) < 2]_vars

\* jump(-1.5, 10.5, 1000000.5) was made after another call, with cells stored,
\* and the cursor is (-1, 10, 1000000).
C26_Witness ==
    /\ tape_call.op = "jump" /\ tape_call.kind = "ok"
    /\ tape_call.arg[1].halves = -3 /\ tape_call.arg[2].halves = 21
    /\ tape_call.arg[3].halves = 2000001
    /\ head = <<-1, 10, 1000000>>
    /\ DOMAIN cells # {} /\ tape_ops = 2

\* C27: a scan with radius r >= 0 returns exactly the stored cells whose
\* greatest coordinate distance from the cursor is at most r, each under the
\* key "x,y,z" with its stored value (with r = 0 nothing but the cursor's
\* cell); a scan with r < 0 fails with ValueError.
C27_ScanIsChebyshevBall ==
    [][TapeStep("scan") =>
          \E r \in {tape_call'.arg} :
             IF r < 0
             THEN tape_call'.kind = "ValueError"
             ELSE LET dist(c) ==
                          LET dx == Abs(c[1] - head[1])
                              dy == Abs(c[2] - head[2])
                              dz == Abs(c[3] - head[3])
                          IN IF dx >= dy /\ dx >= dz THEN dx
                             ELSE IF dy >= dz THEN dy ELSE dz
                      near == {c \in DOMAIN cells : dist(c) <= r}
                  IN /\ tape_call'.kind = "ok"
                     /\ DOMAIN tape_call'.val = {Key(c) : c \in near}
                     /\ \A c \in near : tape_call'.val[Key(c)] = cells[c]
                     /\ r = 0 => DOMAIN tape_call'.val \subseteq {Key(head)}]_vars

\* scan(1) at the origin with cells at (1, 1, 0) and (-10, 2, 11) returned the
\* first, diagonally next to the cursor, and not the second.
C27_Witness ==
    /\ tape_call.op = "scan" /\ tape_call.kind = "ok" /\ tape_call.arg = 1
    /\ head = Origin
    /\ DOMAIN cells = {<<1, 1, 0>>, <<-10, 2, 11>>}
    /\ DOMAIN tape_call.val = {<<"1", ",", "1", ",", "0">>}
    /\ tape_call.val[<<"1", ",", "1", ",", "0">>] = "v"

\* C28: serializing a store and deserializing the result gives a store with
\* the same cursor and the same cell map.
C28_RoundTrip ==
    [][TapeStep("load") => head' = head /\ cells' = cells]_vars

\* A store with a cell at (-10, 2, 11), serialized under the key "-10,2,11",
\* was saved and loaded after a jump to (-1, 10, 1000000).
C28_Witness ==
    /\ tape_call.op = "load" /\ tape_ops = 2
    /\ head = <<-1, 10, 1000000>>
    /\ DOMAIN cells = {<<1, 1, 0>>, <<-10, 2, 11>>}
    /\ <<"-", "1", "0", ",", "2", ",", "1", "1">> \in DOMAIN tape_call.val.cells

\* C40: a read, a scan and a status call change neither the cursor nor the cell
\* map; a move and a jump leave the cell map as it is; a write leaves the
\* cursor and every cell but the one at the cursor as they are; and a call
\* that fails (TypeError of write, ValueError of move and of scan, ValueError
\* or TypeError of jump) changes neither the cursor nor the cell map.
C40_Frame ==
    [][/\ (TapeStep("read") \/ TapeStep("scan") \/ TapeStep("status")) =>
             UNCHANGED <<head, cells>>
       /\ (TapeStep("move") \/ TapeStep("jump")) => cells' = cells
       /\ TapeStep("write") =>
             /\ head' = head
             /\ DOMAIN cells' \ {head} = DOMAIN cells \ {head}
             /\ \A c \in DOMAIN cells \ {head} : cells'[c] = cells[c]
       /\ (tape_ops' = tape_ops + 1 /\ tape_call'.kind # "ok") =>
             UNCHANGED <<head, cells>>]_vars

\* jump(2, -1.5, None) failed with TypeError after a write of "w" at
\* (-10, 1, 11): the cursor is still there and the cell is still stored.
C40_Witness ==
    /\ tape_call.op = "jump" /\ tape_call.kind = "TypeError"
    /\ tape_call.arg[3].type = "NoneType"
    /\ head = <<-10, 1, 11>> /\ tape_ops = 2
    /\ head \in DOMAIN cells /\ cells[head] = "w"

C29_UnknownToolIsAnswered ==
    [][(bpc = "chat" /\ round < stub.last /\ stub.req.name \notin ToolNames
          /\ history' # history) =>
          /\ result'.kind # "raise"
          /\ Len(tool_log') = Len(tool_log) + stub.k
          /\ Len(history') = Len(history) + 1 + stub.k
          /\ \A i \in 1..stub.k :
                /\ tool_log'[Len(tool_log) + i].tool = stub.req.name
                /\ tool_log'[Len(tool_log) + i].result = "Unknown tool"
                /\ history'[Len(history) + 1 + i].role = "tool"
                /\ history'[Len(history) + 1 + i].content = "Unknown tool"
          /\ UNCHANGED <<head, cells, files, dirs>>]_vars

\* Two requests for the tool "bogus" were answered in a think() that follows
\* one in which a tape_write request wrote its cell.
C29_Witness ==
    /\ stub.req.name = "bogus" /\ round = 2
    /\ Len(tool_log) = 2 /\ tool_log[2].result = "Unknown tool"
    /\ history[Len(history)].role = "tool"
    /\ history[Len(history)].content = "Unknown tool"
    /\ cells = (Origin :> "x")

\* C30: a hot-load in which the sandbox refuses an import or the use of a
\* removed builtin returns a result whose tag differs from the tag of a
\* hot-load in which the executed code raises an ordinary exception.
C30_ViolationTagDistinct ==
    (outcome # Pending /\ request.name = "code_exec"
       /\ Raised(request) \in SandboxViolations) =>
        /\ outcome.kind = "return"
        /\ outcome.text # Dispatch([request EXCEPT !.exc = "Exception"]).text

\* C35: in a round of think() with tool requests, the tool log gains one record
\* for each request that was dispatched, in the order of the requests, and the
\* history gains the assistant message followed by one tool message for each
\* record, with the result text of that record, before the next backend call.
C35_OneRecordPerRequest ==
    [][(bpc = "chat" /\ round < stub.last) =>
          /\ Len(tool_log') = Len(tool_log) + stub.k
          /\ Len(history') = Len(history) + 1 + stub.k
          /\ history'[Len(history) + 1].role = "assistant"
          /\ \A i \in 1..stub.k :
                /\ tool_log'[Len(tool_log) + i].tool = stub.req.name
                /\ history'[Len(history) + 1 + i] =
                      Msg("tool", tool_log'[Len(tool_log) + i].result, <<>>)]_vars

(***************************************************************************)
(* Claims about the sandbox (checked under SpecSandbox)                    *)
(***************************************************************************)
\* C31: an import is let through to the real import if and only if its name
\* is an allowed name or an allowed name followed by a dot and more; every
\* other name, blocked or unknown, is refused with an ImportError that names
\* the allowed set.
C31_ImportAllowList ==
    [][sb_call'.n = sb_call.n + 1 =>
          \E name \in {sb_call'.name} :
             LET listed == \E a \in ALLOWED_MODULES :
                              \/ name = a
                              \/ /\ Len(name) > Len(a)
                                 /\ SubSeq(name, 1, Len(a)) = a
                                 /\ name[Len(a) + 1] = "."
             IN IF listed
                THEN sb_call'.res # "ImportError"
                ELSE /\ sb_call'.res = "ImportError"
                     /\ sb_call'.allowed = ALLOWED_MODULES
                     /\ UNCHANGED scope]_vars

\* "collections.abc" was imported and then "requests", which begins like the
\* allowed "re", was refused.
C31_Witness ==
    /\ sb_call.n = 2 /\ sb_call.res = "ImportError"
    /\ sb_call.name = <<"r", "e", "q", "u", "e", "s", "t", "s">>
    /\ "module" \in scope

\* C34: whatever the sandboxed text does, it never holds the os module (file
\* system, process control), the socket module (network), the import
\* machinery or sys (reflective introspection), or the real builtins module
\* (eval, exec, open, __import__: unrestricted execution).
C34_NoEscape ==
    scope \cap {"os", "socket", "BuiltinImporter", "sys", "builtins"} = {}

====
